---- MODULE Spec2Model ----
(***************************************************************************)
(* A model of pnkfelix/allocoll: the layout calculus (Kind), the allocator *)
(* capability with its default reallocate (SuperAlloc), the growable       *)
(* buffer (RawVec) and the bump allocator of the tests with its fallback   *)
(* (direct) allocator.                                                     *)
(*                                                                         *)
(* Six specifications share the module:                                    *)
(*   SpecBump   the bump allocator over one arena and the direct allocator *)
(*   SpecGiant  SpecBump with requests larger than the arena as well       *)
(*   SpecVec    a RawVec over an allocator that meets the capability       *)
(*   SpecAlloc  the capability's default operations over such an allocator *)
(*   SpecKind   one call of a method of the layout calculus                *)
(*   SpecTyped  the typed conveniences over both allocators                *)
(***************************************************************************)
EXTENDS Integers, Sequences, FiniteSets, TLC

VARIABLES
    \* ---- bump allocator (tests/bump_alloc.rs) ----
    block,      \* AllocState.block : start address of the backing block
    limit,      \* AllocState.limit : block + len
    cursor,     \* AllocState.cursor
    mem,        \* the bytes of the backing block, by address
    dmem,       \* the direct allocator's heap: slot address -> bytes of the live block there
    wild,       \* addresses outside every block that a 4-byte store has hit
    regions,    \* regions the caller holds: [addr, kind, via, filled, tag, moved]
    chain,      \* addresses of the arena regions allocated and not yet given back
                \* since the caller last left stack order, oldest first
    undone,     \* how many regions of the chain have been given back, last first
    holes,      \* arena entries given back while not last, still below the cursor
    bstatus,    \* "run" | "panic" (assert_eq! failed) | "hang" | "wild"
    handed,     \* number of regions handed out so far
    handles,    \* number of live handles (Alloc values) sharing the state: the Rc's count
    backing,    \* "live" | "released": the backing block in the direct allocator
    blast,      \* the caller's last call: [op, kind, ptr, ret, res, before, fits]
    \* ---- an allocator that meets the capability (alloc.rs: trait Alloc) ----
    aheap,      \* its blocks: address -> [live, kind, data]
    alog,       \* the calls of alloc and dealloc the last operation made on it
    aheld,      \* regions the caller holds: [addr, kind, tag]
    alast,      \* the caller's last call: [op, ptr, kind, new_size, ret]
    \* ---- growable buffer (raw_vec.rs: RawVec<T, A>) ----
    vbits,      \* usize::BITS of the platform
    velem,      \* Kind::new::<T>() of the element type
    valloc,     \* "super": A keeps the default realloc; "heap": A is DefaultAlloc
    vptr,       \* RawVec.ptr
    vcap,       \* RawVec.cap
    vstatus,    \* "none" | "live" | "dropped" | "capacity overflow" | "assert" | "oom" | "ub"
                \* | "boxed" | "box dropped"
    vlast,      \* the last operation: [op, used, extra, within, after, call]
    \* ---- layout calculus (alloc.rs: Kind) ----
    kcall       \* the last call of a Kind method: [op, build, self, next, n, out, offset, status]

bvars == <<block, limit, cursor, mem, dmem, wild, regions, chain, undone, holes,
          bstatus, handed, handles, backing, blast>>

avars == <<aheap, alog, aheld, alast>>

vvars == <<vbits, velem, valloc, vptr, vcap, vstatus, vlast>>

kvars == <<kcall>>

vars == <<bvars, avars, vvars, kvars>>

\* the parts of the state a specification does not use stay at these values
IdleBump ==
    /\ block = 0 /\ limit = 0 /\ cursor = 0 /\ mem = <<>> /\ dmem = <<>> /\ wild = {}
    /\ regions = {} /\ chain = <<>> /\ undone = 0 /\ holes = {} /\ bstatus = "idle"
    /\ handed = 0 /\ handles = 0 /\ backing = "idle" /\ blast = <<>>

IdleAlloc == aheap = <<>> /\ alog = <<>> /\ aheld = {} /\ alast = <<>>

IdleKind == kcall = <<>>

IdleVec ==
    /\ vbits = 0 /\ velem = <<>> /\ valloc = "idle" /\ vptr = 0 /\ vcap = 0
    /\ vstatus = "idle" /\ vlast = <<>>

(***************************************************************************)
(* Bounds of the model.                                                    *)
(***************************************************************************)
ArenaLen == 80          \* the len given to Alloc::new
MaxRegions == 4         \* regions handed out in one run
MaxHandles == 2         \* handles alive at once
SizeBits == 8           \* the width the model gives to i32 (32 in the program)
NarrowBits == 4         \* usize::BITS of a platform below 64 bits, scaled down
WideBits == 5           \* usize::BITS of a 64-bit platform, scaled down

(***************************************************************************)
(* Layouts (alloc.rs, Kind).                                               *)
(***************************************************************************)
Kind(size, align) == [size |-> size, align |-> align]

\* x & !(m - 1) for m a power of two, on two's complement integers
AndNotLow(x, m) == x - (x % m)

Min(a, b) == IF a <= b THEN a ELSE b

(***************************************************************************)
(* Memory cells.  A byte is <<tag, v, k>>:                                 *)
(*   <<"h", v, k>>  byte k of the 4-byte signed integer v                  *)
(*   <<"d", t, i>>  byte i of the data the caller wrote at address t        *)
(*   <<"u", 0, 0>>  never written                                          *)
(***************************************************************************)
Uninit == <<"u", 0, 0>>
HdrByte(v, k) == <<"h", v, k>>
DataByte(tag, i) == <<"d", tag, i>>

MIN_ALIGN == 16         \* bump_alloc.rs: const MIN_ALIGN
HDR == 4                \* bump_alloc.rs: the i32 size word of an entry

\* i32::MAX and i32::MIN at the model's width
I32Max == 2^(SizeBits - 1) - 1
I32Min == 0 - 2^(SizeBits - 1)

\* heap::EMPTY, the address of every zero-sized allocation, and the null address
EMPTY == 1
NULL == 0
\* addresses the system heap may give: for the backing block, and for the
\* blocks of the direct allocator (slots SlotLen bytes apart)
ArenaBases == {4096, 4104}
DirectSlots == {8200, 8328}
SlotLen == 128

\* the layouts the caller asks for
BumpSizes == {4, 28, 40}
BumpKinds == {Kind(4, 4), Kind(28, 4), Kind(4, 32)}
\* layouts larger than the arena: one whose entry size still is an i32, and
\* three whose size + 4 is past i32::MAX and, as i32, is 0, -16 and -32
GiantKinds == {Kind(ArenaLen + 20, 1), Kind(2^SizeBits - HDR, 1),
               Kind(2^SizeBits - HDR - 16, 1), Kind(2^SizeBits - HDR - 32, 1)}

(***************************************************************************)
(* Machine arithmetic of the bump allocator.                               *)
(***************************************************************************)
\* `x as i32`: sizes are held as the signed value of their low 32 bits
AsI32(x) ==
    LET low == x % 2^SizeBits IN
    IF low > I32Max THEN low - 2^SizeBits ELSE low

\* i32 addition, wrapping at 32 bits
AddI32(a, b) ==
    IF a > 0 /\ b > 0 /\ a > I32Max - b THEN (a + I32Min) + (b + I32Min)
    ELSE IF a < 0 /\ b < 0 /\ a < I32Min - b THEN (a - I32Min) + (b - I32Min)
    ELSE a + b

\* p.offset(d)
Offset(p, d) == p + d

\* fn roundup_size(size: i32) -> i32 { size + 16 & !15 }   (+ binds tighter than &)
roundup_size(size) == AndNotLow(AddI32(size, MIN_ALIGN), MIN_ALIGN)

(***************************************************************************)
(* The memory the allocators work on, as one value S:                      *)
(*   [cursor, mem, dmem, wild, status]                                     *)
(***************************************************************************)
NoBlock == [live |-> FALSE, data |-> <<>>]

InArena(a) == a >= block /\ a < limit

\* the slot whose live block holds address a, as a set (empty or one slot)
SlotOf(S, a) == {s \in DirectSlots : S.dmem[s].live /\ a >= s /\ a < s + Len(S.dmem[s].data)}

Garbage == <<"x", 0, 0>>

LoadByte(S, a) ==
    IF InArena(a) THEN S.mem[a]
    ELSE IF SlotOf(S, a) # {} THEN LET s == CHOOSE t \in SlotOf(S, a) : TRUE
                                   IN S.dmem[s].data[a - s + 1]
    ELSE Garbage

\* store the byte new[a] at every address a of the domain of new
StoreBytes(S, new) ==
    [S EXCEPT
       !.mem = [a \in DOMAIN S.mem |-> IF a \in DOMAIN new THEN new[a] ELSE S.mem[a]],
       !.dmem = [s \in DirectSlots |->
                   [S.dmem[s] EXCEPT !.data =
                      [i \in 1..Len(S.dmem[s].data) |->
                          IF (s + i - 1) \in DOMAIN new THEN new[s + i - 1]
                          ELSE S.dmem[s].data[i]]]],
       !.wild = S.wild \cup {a \in DOMAIN new : ~InArena(a) /\ SlotOf(S, a) = {}}]

\* *(a as *mut i32) = v
StoreI32(S, a, v) ==
    StoreBytes(S, [x \in a..(a + 3) |-> HdrByte(v, x - a)])

\* *(a as *mut i32): the value when the four bytes hold one integer stored
\* there, and otherwise whatever the bytes happen to spell
ReadI32(S, a) ==
    LET c == [k \in 0..3 |-> LoadByte(S, a + k)] IN
    IF \A k \in 0..3 : c[k][1] = "h" /\ c[k][3] = k /\ c[k][2] = c[0][2]
    THEN [ok |-> TRUE, v |-> c[0][2]]
    ELSE [ok |-> FALSE, v |-> 0]

\* ptr::copy(src, dst, n)
CopyBytes(S, src, dst, n) ==
    StoreBytes(S, [x \in dst..(dst + n - 1) |-> LoadByte(S, src + (x - dst))])

(***************************************************************************)
(* The direct allocator (tests/direct_alloc.rs): a RawVec<u8> of the       *)
(* system heap, made and forgotten.  An operation yields the set of its    *)
(* possible outcomes.                                                      *)
(***************************************************************************)
\* alloc: RawVec::with_capacity(kind.size()).ptr(); kind.align() is not used
DirectAlloc(S, kind) ==
    IF kind.size = 0
    THEN {[S |-> S, ret |-> EMPTY]}
    ELSE {[S |-> [S EXCEPT !.dmem[s] = [live |-> TRUE,
                                        data |-> [i \in 1..kind.size |-> Uninit]]],
           ret |-> s] : s \in {t \in DirectSlots : ~S.dmem[t].live /\ kind.size <= SlotLen}}

\* dealloc: drop(RawVec::from_raw_parts(ptr, kind.size()))
DirectDealloc(S, ptr, kind) ==
    IF kind.size = 0 THEN S
    ELSE [S EXCEPT !.dmem = [s \in DirectSlots |-> IF s = ptr THEN NoBlock ELSE S.dmem[s]]]

(***************************************************************************)
(* The bump allocator (tests/bump_alloc.rs).                               *)
(***************************************************************************)
\* alloc that puts the size word first and returns the address after it
BumpAlloc_HeaderFirst(S, kind) ==
    LET size == roundup_size(AsI32(kind.size + HDR)) IN
    IF kind.align <= MIN_ALIGN /\ S.cursor < Offset(limit, -size)
    THEN LET p == S.cursor
             n == Offset(p, size)
         IN  {[S |-> StoreI32([S EXCEPT !.cursor = n], p, size),
               ret |-> Offset(p, HDR), via |-> "bump"]}
    ELSE {[S |-> o.S, ret |-> o.ret, via |-> "direct"] : o \in DirectAlloc(S, kind)}

\* impl alloc::Alloc for Alloc: alloc
BumpAlloc(S, kind) ==
    LET size == roundup_size(AsI32(kind.size + HDR)) IN
    IF kind.align <= MIN_ALIGN /\ S.cursor < Offset(limit, -size)
    THEN LET p == S.cursor
             n == Offset(p, size)
         IN  {[S |-> StoreI32([S EXCEPT !.cursor = n], Offset(n, -4), size),
               ret |-> p, via |-> "bump"]}
    ELSE {[S |-> o.S, ret |-> o.ret, via |-> "direct"] : o \in DirectAlloc(S, kind)}

\* the loop of dealloc: from back, step over the entries whose size word is
\* not positive.  Yields the possible [cursor, status].
RECURSIVE WalkBack(_, _)
WalkBack(S, back) ==
    IF back = block THEN {[cursor |-> back, status |-> "run"]}
    ELSE LET rd == ReadI32(S, Offset(back, -4)) IN
         IF ~rd.ok THEN {[cursor |-> back, status |-> "run"],
                         [cursor |-> S.cursor, status |-> "wild"]}
         ELSE IF rd.v > 0 THEN {[cursor |-> back, status |-> "run"]}
         ELSE IF rd.v = 0 THEN {[cursor |-> S.cursor, status |-> "hang"]}
         ELSE WalkBack(S, Offset(back, rd.v))

\* the test `next != self.state.cursor.get()` of dealloc
NotLast(S, next) == next # S.cursor

\* impl alloc::Alloc for Alloc: dealloc
BumpDealloc(S, ptr, kind) ==
    IF kind.align <= MIN_ALIGN
    THEN LET size == roundup_size(AsI32(kind.size + HDR))
             next == Offset(ptr, size)
             entry_size == Offset(next, -4)
             rd == ReadI32(S, entry_size)
             \* bytes that hold no size word may or may not spell `size`
             seen == IF rd.ok THEN {rd.v} ELSE {size, 0 - 1}
         IN  UNION {
               IF v # size
               THEN {[S |-> [S EXCEPT !.status = "panic"], route |-> "bump"]}
               ELSE IF NotLast(S, next)
               THEN {[S |-> StoreI32(S, entry_size, -size), route |-> "bump"]}
               ELSE {[S |-> [S EXCEPT !.cursor = w.cursor, !.status = w.status],
                      route |-> "bump"] : w \in WalkBack(S, ptr)}
               : v \in seen}
    ELSE {[S |-> DirectDealloc(S, ptr, kind), route |-> "direct"]}

\* SuperAlloc::usable_size
usable_size(kind) == kind.size

\* impl alloc::Alloc for Alloc: realloc, which is SuperAlloc::realloc over
\* the alloc and dealloc above
BumpRealloc(S, ptr, kind, new_size) ==
    IF new_size <= usable_size(kind)
    THEN {[S |-> S, ret |-> ptr, via |-> "same", route |-> "none"]}
    ELSE UNION {
           IF a.ret # NULL
           THEN {[S |-> d.S, ret |-> a.ret, via |-> a.via, route |-> d.route]
                   : d \in BumpDealloc(CopyBytes(a.S, ptr, a.ret, Min(kind.size, new_size)),
                                       ptr, kind)}
           ELSE {[S |-> a.S, ret |-> a.ret, via |-> a.via, route |-> "none"]}
           : a \in BumpAlloc(S, [kind EXCEPT !.size = new_size])}

(***************************************************************************)
(* The caller of the bump allocator.  It keeps the contract: a region is   *)
(* given back once, with the layout it was asked for.                      *)
(***************************************************************************)
\* SuperAlloc::alloc_one / alloc_array: the Result made of the address p
\* that alloc returned
Typed(p) == IF p # NULL THEN [ok |-> TRUE, ptr |-> p] ELSE [ok |-> FALSE, ptr |-> NULL]

\* the layouts that are Kind::new::<T>() of a type T: the size of a type is
\* a multiple of its alignment
IsTypeKind(kind) == kind.size % kind.align = 0

\* the record of a call op(ptr, kind) that returned ret: res is the typed
\* result, before the cursor when it was made and fits whether an entry for
\* kind ends at or before the limit
BCall(op, kind, ptr, ret) ==
    [op |-> op, kind |-> kind, ptr |-> ptr, ret |-> ret, res |-> Typed(ret),
     before |-> cursor,
     fits |-> cursor + AndNotLow(kind.size + HDR + MIN_ALIGN, MIN_ALIGN) <= limit]

Cur == [cursor |-> cursor, mem |-> mem, dmem |-> dmem, wild |-> wild, status |-> bstatus]

SetCur(S) ==
    /\ cursor' = S.cursor
    /\ mem' = S.mem
    /\ dmem' = S.dmem
    /\ wild' = S.wild
    /\ bstatus' = S.status

\* the entry of an arena region: [addr, addr + EntrySize)
EntrySize(kind) == roundup_size(AsI32(kind.size + HDR))
EntryEnd(r) == r.addr + EntrySize(r.kind)

\* the holes that remain once the cursor is c
HolesBelow(hs, c) == {h \in hs : h.end <= c}

\* Alloc::new(len): the block comes from the direct allocator (alloc_array::<u8>(len))
InitBump ==
    /\ block \in ArenaBases
    /\ limit = block + ArenaLen
    /\ cursor = block
    /\ mem = [a \in block..(block + ArenaLen - 1) |-> Uninit]
    /\ dmem = [s \in DirectSlots |-> NoBlock]
    /\ wild = {}
    /\ regions = {}
    /\ chain = <<>>
    /\ undone = 0
    /\ holes = {}
    /\ bstatus = "run"
    /\ handed = 0
    /\ handles = 1
    /\ backing = "live"
    /\ blast = BCall("none", Kind(0, 1), NULL, NULL)
    /\ IdleAlloc
    /\ IdleVec
    /\ IdleKind

\* p = bmp.alloc(kind) for a kind of kinds; then the caller writes
\* write[kind] distinguishable bytes at p, as demo_bump_calls does
\* (tests/mod.rs: **p = 3)
BAllocOf(kinds, write) ==
    /\ bstatus = "run"
    /\ handles > 0
    /\ handed < MaxRegions
    /\ \E kind \in kinds : \E o \in BumpAlloc(Cur, kind) :
         /\ SetCur(StoreBytes(o.S, [x \in o.ret..(o.ret + write[kind] - 1)
                                        |-> DataByte(o.ret, x - o.ret)]))
         /\ regions' = regions \cup {[addr |-> o.ret, kind |-> kind, via |-> o.via,
                                      filled |-> write[kind], tag |-> o.ret, moved |-> FALSE]}
         /\ chain' = IF o.via = "bump" THEN Append(chain, o.ret) ELSE <<>>
         /\ undone' = 0
         /\ holes' = HolesBelow(holes, o.S.cursor)
         /\ blast' = BCall("alloc", kind, NULL, o.ret)
    /\ handed' = handed + 1
    /\ UNCHANGED <<block, limit, handles, backing, avars, vvars, kvars>>

\* bmp.dealloc(p, kind)
BDealloc ==
    /\ bstatus = "run"
    /\ handles > 0
    /\ \E r \in regions : \E o \in BumpDealloc(Cur, r.addr, r.kind) :
         /\ SetCur(o.S)
         /\ regions' = regions \ {r}
         /\ IF chain # <<>> /\ chain[Len(chain)] = r.addr
            THEN chain' = SubSeq(chain, 1, Len(chain) - 1) /\ undone' = undone + 1
            ELSE chain' = <<>> /\ undone' = 0
         /\ holes' = HolesBelow(
                       IF r.via = "bump" /\ o.S.status = "run"
                       THEN holes \cup {[addr |-> r.addr, end |-> EntryEnd(r)]}
                       ELSE holes, o.S.cursor)
         /\ blast' = BCall("dealloc", r.kind, r.addr, NULL)
    /\ UNCHANGED <<block, limit, handed, handles, backing, avars, vvars, kvars>>

\* p = bmp.realloc(p, kind, new_size), asked to grow
BRealloc ==
    /\ bstatus = "run"
    /\ handles > 0
    /\ handed < MaxRegions
    /\ \E r \in regions : \E new_size \in {n \in BumpSizes : n > r.kind.size} :
       \E o \in BumpRealloc(Cur, r.addr, r.kind, new_size) :
         /\ SetCur(o.S)
         /\ regions' = (regions \ {r}) \cup
                         {[r EXCEPT !.addr = o.ret, !.kind.size = new_size, !.via = o.via,
                                    !.moved = TRUE]}
         /\ holes' = HolesBelow(
                       IF r.via = "bump" /\ o.S.status = "run"
                       THEN holes \cup {[addr |-> r.addr, end |-> EntryEnd(r)]}
                       ELSE holes, o.S.cursor)
         /\ blast' = BCall("realloc", r.kind, r.addr, o.ret)
    /\ chain' = <<>>
    /\ undone' = 0
    /\ handed' = handed + 1
    /\ UNCHANGED <<block, limit, handles, backing, avars, vvars, kvars>>

\* bmp.clone() (#[derive(Clone)]): one more handle on the same Rc<AllocState>
BClone ==
    /\ bstatus = "run"
    /\ handles > 0
    /\ handles < MaxHandles
    /\ handles' = handles + 1
    /\ UNCHANGED <<block, limit, cursor, mem, dmem, wild, regions, chain, undone, holes,
                   bstatus, handed, backing, blast, avars, vvars, kvars>>

\* a handle goes out of scope: Drop for Alloc prints; the Rc's count goes
\* down and at 0 Drop for AllocState runs, which prints and does nothing
\* else, so that the backing block stays as it is
BDropHandle ==
    /\ bstatus \in {"run", "panic"}
    /\ handles > 0
    /\ handles' = handles - 1
    /\ UNCHANGED <<block, limit, cursor, mem, dmem, wild, regions, chain, undone, holes,
                   bstatus, handed, backing, blast, avars, vvars, kvars>>

BAlloc == BAllocOf(BumpKinds, [kind \in BumpKinds |-> kind.size])

NextBump == BAlloc \/ BDealloc \/ BRealloc \/ BClone \/ BDropHandle

SpecBump == InitBump /\ [][NextBump]_vars

(***************************************************************************)
(* SpecGiant: SpecBump with a caller that also asks for layouts larger     *)
(* than the arena.  It does not write to what it gets for them.            *)
(***************************************************************************)
BAllocGiant == BAllocOf(GiantKinds, [kind \in GiantKinds |-> 0])

NextGiant == NextBump \/ BAllocGiant

SpecGiant == InitBump /\ [][NextGiant]_vars

(***************************************************************************)
(* Claims about the bump allocator, checked under SpecBump.                *)
(***************************************************************************)
Disjoint(a1, e1, a2, e2) == e1 <= a2 \/ e2 <= a1

\* the step gives region r back (dealloc, not realloc)
GivesBack(r) == regions' = regions \ {r}

\* C1: a region that alloc served from the direct allocator, because its
\* align is above 16 or because its entry did not fit in the arena, is given
\* back to the direct allocator by dealloc(address, same layout), and the
\* call leaves the cursor and the bytes of the arena as they were.
C1_DirectRegionsGoBackToDirect ==
    [][\A r \in regions :
         (r.via = "direct" /\ GivesBack(r))
           => /\ ~dmem'[r.addr].live
              /\ cursor' = cursor
              /\ mem' = mem
              /\ wild' = wild
              /\ bstatus' = "run"]_vars

\* the part of C1 that the code keeps: regions with align above 16
C1_OverAlignedGoBackToDirect ==
    [][\A r \in regions :
         (r.kind.align > MIN_ALIGN /\ GivesBack(r))
           => /\ ~dmem'[r.addr].live
              /\ cursor' = cursor
              /\ mem' = mem
              /\ wild' = wild
              /\ bstatus' = "run"]_vars

\* C2: regions allocated from the arena one after the other and given back
\* in the reverse order (X, Y, Z; then Z, Y, X): after each dealloc the
\* cursor is the start address of the region just given back; when the last
\* one given back started at the block start, the cursor is the block start.
C2_LifoRewindsToRegionStart ==
    [][undone' = undone + 1
         => \E r \in regions :
              /\ GivesBack(r)
              /\ r.addr = chain[Len(chain)]
              /\ r.via = "bump"
              /\ cursor' = r.addr
              /\ bstatus' = "run"
              /\ (r.addr = block => cursor' = block)]_vars

HeapAddrs == {64, 96}

NoMem == [live |-> FALSE, kind |-> Kind(0, 1), data |-> <<>>]

Owns(H, ptr, kind) == ptr \in HeapAddrs /\ H.heap[ptr].live /\ H.heap[ptr].kind = kind

\* Alloc::alloc(kind)
AbsAlloc(H, kind) ==
    {[H |-> [H EXCEPT !.log = Append(@, [op |-> "alloc", ptr |-> NULL, kind |-> kind])],
      ret |-> NULL]}
    \cup
    {[H |-> [H EXCEPT !.heap[a] = [live |-> TRUE, kind |-> kind,
                                   data |-> [i \in 1..kind.size |-> Uninit]],
                      !.log = Append(@, [op |-> "alloc", ptr |-> a, kind |-> kind])],
      ret |-> a] : a \in {b \in HeapAddrs : ~H.heap[b].live /\ kind.size <= H.max}}

\* Alloc::dealloc(ptr, kind)
AbsDealloc(H, ptr, kind) ==
    [H EXCEPT !.heap = [a \in HeapAddrs |-> IF a = ptr THEN NoMem ELSE H.heap[a]],
              !.log = Append(@, [op |-> "dealloc", ptr |-> ptr, kind |-> kind]),
              !.ub = @ \/ ~Owns(H, ptr, kind)]

\* ptr::copy(src, dst, n) between blocks of the allocator
AbsCopy(H, src, dst, n) ==
    IF src \in HeapAddrs /\ dst \in HeapAddrs /\ src # dst
    THEN [H EXCEPT !.heap[dst].data =
            [i \in 1..Len(H.heap[dst].data) |->
               IF i <= n /\ i <= Len(H.heap[src].data) THEN H.heap[src].data[i]
               ELSE H.heap[dst].data[i]]]
    ELSE H

\* SuperAlloc::realloc that gives the old region back although alloc returned null
SuperRealloc_FreesOnNull(H, ptr, kind, new_size) ==
    IF new_size <= usable_size(kind)
    THEN {[H |-> H, ret |-> ptr]}
    ELSE {[H |-> AbsDealloc(AbsCopy(a.H, ptr, a.ret, Min(kind.size, new_size)), ptr, kind),
           ret |-> a.ret] : a \in AbsAlloc(H, [kind EXCEPT !.size = new_size])}

\* SuperAlloc::realloc that moves the region whatever the new size
SuperRealloc_AlwaysMoves(H, ptr, kind, new_size) ==
    UNION {
      IF a.ret # NULL
      THEN {[H |-> AbsDealloc(AbsCopy(a.H, ptr, a.ret, Min(kind.size, new_size)), ptr, kind),
             ret |-> a.ret]}
      ELSE {[H |-> a.H, ret |-> a.ret]}
      : a \in AbsAlloc(H, [kind EXCEPT !.size = new_size])}

\* SuperAlloc::realloc(ptr, kind, new_size), the default every allocator gets
SuperRealloc(H, ptr, kind, new_size) ==
    IF new_size <= usable_size(kind)
    THEN {[H |-> H, ret |-> ptr]}
    ELSE UNION {
           IF a.ret # NULL
           THEN {[H |-> AbsDealloc(AbsCopy(a.H, ptr, a.ret, Min(kind.size, new_size)),
                                   ptr, kind),
                  ret |-> a.ret]}
           ELSE {[H |-> a.H, ret |-> a.ret]}
           : a \in AbsAlloc(H, [kind EXCEPT !.size = new_size])}

(***************************************************************************)
(* SpecAlloc: a caller of the capability.  It allocates regions and writes *)
(* them, reallocates them through the default realloc, to any size, and    *)
(* gives them back.                                                        *)
(***************************************************************************)
AKinds == {Kind(1, 1), Kind(2, 2)}
ASizes == {1, 2, 3}

\* the allocator before a call: nothing logged yet
AH == [heap |-> aheap, log |-> <<>>, ub |-> FALSE, max |-> 2^(WideBits - 1) - 1]

\* the allocator has been made: it has its blocks
AllocMade == DOMAIN aheap = HeapAddrs

NoCall == [op |-> "none", ptr |-> NULL, kind |-> Kind(0, 1), new_size |-> 0, ret |-> NULL,
           res |-> Typed(NULL)]

InitAlloc ==
    /\ aheap = [a \in HeapAddrs |-> NoMem]
    /\ alog = <<>>
    /\ aheld = {}
    /\ alast = NoCall
    /\ IdleBump
    /\ IdleVec
    /\ IdleKind

\* p = a.alloc(kind); when p is not null the caller writes the region
AAlloc ==
    /\ AllocMade
    /\ \E kind \in AKinds : \E o \in AbsAlloc(AH, kind) :
         /\ aheap' = IF o.ret = NULL THEN o.H.heap
                     ELSE [o.H.heap EXCEPT ![o.ret].data =
                             [i \in 1..kind.size |-> DataByte(o.ret, i - 1)]]
         /\ alog' = o.H.log
         /\ aheld' = IF o.ret = NULL THEN aheld
                     ELSE aheld \cup {[addr |-> o.ret, kind |-> kind]}
         /\ alast' = [op |-> "alloc", ptr |-> NULL, kind |-> kind, new_size |-> 0,
                      ret |-> o.ret, res |-> Typed(o.ret)]
    /\ UNCHANGED <<bvars, vvars, kvars>>

\* q = a.realloc(p, kind, new_size); null leaves the caller with p
ARealloc ==
    /\ AllocMade
    /\ \E r \in aheld : \E new_size \in ASizes :
       \E o \in SuperRealloc(AH, r.addr, r.kind, new_size) :
         /\ ~o.H.ub
         /\ aheap' = o.H.heap
         /\ alog' = o.H.log
         /\ aheld' = IF o.ret = NULL THEN aheld
                     ELSE (aheld \ {r}) \cup {[addr |-> o.ret,
                                               kind |-> [r.kind EXCEPT !.size =
                                                           IF o.ret = r.addr THEN @ ELSE new_size]]}
         /\ alast' = [op |-> "realloc", ptr |-> r.addr, kind |-> r.kind,
                      new_size |-> new_size, ret |-> o.ret, res |-> Typed(o.ret)]
    /\ UNCHANGED <<bvars, vvars, kvars>>

\* a.dealloc(p, kind)
ADealloc ==
    /\ AllocMade
    /\ \E r \in aheld : LET H == AbsDealloc(AH, r.addr, r.kind) IN
         /\ ~H.ub
         /\ aheap' = H.heap
         /\ alog' = H.log
         /\ aheld' = aheld \ {r}
         /\ alast' = [op |-> "dealloc", ptr |-> r.addr, kind |-> r.kind, new_size |-> 0,
                      ret |-> NULL, res |-> Typed(NULL)]
    /\ UNCHANGED <<bvars, vvars, kvars>>

NextAlloc == AAlloc \/ ARealloc \/ ADealloc

SpecAlloc == InitAlloc /\ [][NextAlloc]_vars

(***************************************************************************)
(* Claims about the default realloc, checked under SpecAlloc.              *)
(***************************************************************************)
\* the entries of the log that are calls of op
CallsOf(log, op) == {i \in 1..Len(log) : log[i].op = op}

\* C9: the default realloc never shrinks: called with
\* new_size <= usable_size(kind) it returns the address it was given, calls
\* neither alloc nor dealloc and leaves the allocator's state as it was.
C9_ReallocInPlaceWhenFits ==
    [][(alast'.op = "realloc" /\ alast'.new_size <= usable_size(alast'.kind))
         => /\ alast'.ret = alast'.ptr
            /\ alog' = <<>>
            /\ aheap' = aheap]_vars

\* a realloc to a smaller size has returned, on a region that holds data
C9_Witness ==
    /\ alast.op = "realloc"
    /\ alast.new_size < alast.kind.size
    /\ alast.ret # NULL
    /\ aheap[alast.ret].live
    /\ Len(aheap[alast.ret].data) = alast.kind.size

\* C10: when the default realloc needs a new region and alloc returns null,
\* realloc returns null, does not call dealloc and leaves the old region
\* and its contents as they were; when alloc succeeds the old region is
\* given back exactly once, with the old kind.
C10_ReallocNullKeepsOld ==
    [][(alast'.op = "realloc" /\ alast'.new_size > usable_size(alast'.kind))
         => /\ Len(alog') >= 1
            /\ alog'[1].op = "alloc"
            /\ alog'[1].kind = [alast'.kind EXCEPT !.size = alast'.new_size]
            /\ alast'.ret = alog'[1].ptr
            /\ IF alog'[1].ptr = NULL
               THEN /\ alast'.ret = NULL
                    /\ CallsOf(alog', "dealloc") = {}
                    /\ aheap'[alast'.ptr] = aheap[alast'.ptr]
                    /\ aheap'[alast'.ptr].live
               ELSE /\ Cardinality(CallsOf(alog', "dealloc")) = 1
                    /\ \A i \in CallsOf(alog', "dealloc") :
                         alog'[i].ptr = alast'.ptr /\ alog'[i].kind = alast'.kind
                    /\ ~aheap'[alast'.ptr].live]_vars

\* a growing realloc has returned null and the old region still holds the
\* bytes the caller wrote
C10_Witness ==
    /\ alast.op = "realloc"
    /\ alast.new_size > alast.kind.size
    /\ alast.ret = NULL
    /\ aheap[alast.ptr].live
    /\ aheap[alast.ptr].data = [i \in 1..alast.kind.size |-> DataByte(alast.ptr, i - 1)]

(***************************************************************************)
(* usize arithmetic of the platform, vbits wide.                           *)
(***************************************************************************)
UsizeMax == 2^vbits - 1
IsizeMax == 2^(vbits - 1) - 1

None == 0 - 1

checked_add(a, b) == IF a + b > UsizeMax THEN None ELSE a + b
checked_mul(a, b) == IF a * b > UsizeMax THEN None ELSE a * b
wrapping_sub(a, b) == (a - b) % (UsizeMax + 1)
\* a * b and a + b as the machine computes them when nothing checks them
MulUsize(a, b) == (a * b) % (UsizeMax + 1)
AddUsize(a, b) == (a + b) % (UsizeMax + 1)

\* Kind::pad_to
pad_to(self, align) ==
    LET len == self.size
        len_rounded_up == AndNotLow(AddUsize(len, align - 1), align)
    IN  wrapping_sub(len_rounded_up, len)

\* Kind::array
array(self, n) ==
    LET padded_size == AddUsize(self.size, pad_to(self, self.align))
    IN  Kind(MulUsize(padded_size, n), self.align)

(***************************************************************************)
(* The allocator A of a RawVec<T, A>.  valloc = "heap": DefaultAlloc, whose *)
(* realloc is heap::reallocate; valloc = "super": an allocator that keeps  *)
(* the default realloc.                                                    *)
(***************************************************************************)
\* heap::reallocate(ptr, old_size, size, align): null, or the block resized,
\* where it is or somewhere else
HeapReallocate(H, ptr, kind, new_size) ==
    LET H1 == [H EXCEPT !.log = Append(@, [op |-> "realloc", ptr |-> ptr, kind |-> kind]),
                        !.ub = @ \/ ~Owns(H, ptr, kind)]
        new_kind == [kind EXCEPT !.size = new_size]
        old == IF ptr \in HeapAddrs THEN H.heap[ptr].data ELSE <<>>
        data == [i \in 1..new_size |-> IF i <= Len(old) THEN old[i] ELSE Uninit]
        blk == [live |-> TRUE, kind |-> new_kind, data |-> data]
    IN  {[H |-> H1, ret |-> NULL]}
        \cup
        {[H |-> [H1 EXCEPT !.heap = [b \in HeapAddrs |->
                                       IF b = a THEN blk
                                       ELSE IF b = ptr THEN NoMem ELSE H.heap[b]]],
          ret |-> a]
           : a \in {b \in HeapAddrs : (b = ptr \/ ~H.heap[b].live) /\ new_size <= H.max}}

\* self.alloc.alloc(kind)
VAlloc(H, kind) ==
    IF valloc = "heap" /\ kind.size = 0 THEN {[H |-> H, ret |-> EMPTY]}
    ELSE AbsAlloc(H, kind)

\* self.alloc.realloc(ptr, kind, new_size)
VRealloc(H, ptr, kind, new_size) ==
    IF valloc = "heap" THEN HeapReallocate(H, ptr, kind, new_size)
    ELSE SuperRealloc(H, ptr, kind, new_size)

(***************************************************************************)
(* RawVec<T, A> (raw_vec.rs).  An operation maps the buffer V =            *)
(* [ptr, cap, H] to the set of its outcomes [ptr, cap, H, status, call];   *)
(* call is the call it made on the allocator: [op, size, exact], size the  *)
(* byte size it passed and exact the byte size as a mathematical integer.  *)
(***************************************************************************)
POST_DROP_USIZE == 29 % (UsizeMax + 1)

Call(op, size, exact) == [op |-> op, size |-> size, exact |-> exact]

\* the operation stops: panic (assert!, expect) before it changed anything
Stops(V, status, exact) ==
    [ptr |-> V.ptr, cap |-> V.cap, H |-> V.H, status |-> status,
     call |-> Call("none", 0, exact)]

\* the operation returns without a call on the allocator
Returns(V, ptr, cap) ==
    [ptr |-> ptr, cap |-> cap, H |-> V.H, status |-> "live", call |-> Call("none", 0, None)]

\* the tail of double, reserve and reserve_exact, from the allocator's
\* answer a on: `if ptr.is_null() { oom() }`, then ptr and cap are set
Grown(V, a, new_cap, call) ==
    IF a.H.ub THEN [ptr |-> a.ret, cap |-> new_cap, H |-> a.H, status |-> "ub", call |-> call]
    ELSE IF a.ret = NULL
    THEN [ptr |-> V.ptr, cap |-> V.cap, H |-> a.H, status |-> "oom", call |-> call]
    ELSE [ptr |-> a.ret, cap |-> new_cap, H |-> a.H, status |-> "live", call |-> call]

\* fn empty<T>()
empty == [ptr |-> EMPTY, cap |-> IF velem.size = 0 THEN UsizeMax ELSE 0]

\* fn alloc_guard(alloc_size): TRUE when the assertion lets alloc_size pass
alloc_guard_Off(alloc_size) == TRUE

alloc_guard(alloc_size) ==
    IF vbits < WideBits THEN alloc_size <= IsizeMax ELSE TRUE

\* RawVec::cap that reads the cap field whatever the element type
cap_Field(V) == V.cap

\* RawVec::cap
cap(V) == IF velem.size = 0 THEN UsizeMax ELSE V.cap

\* RawVec::with_capacity_alloc(cap, a); V is the buffer before it exists
with_capacity_alloc(V, n) ==
    LET elem_size == velem.size
        alloc_size == checked_mul(n, elem_size)
    IN  IF alloc_size = None THEN {Stops(V, "capacity overflow", n * elem_size)}
        ELSE IF ~alloc_guard(alloc_size) THEN {Stops(V, "capacity overflow", n * elem_size)}
        ELSE IF alloc_size = 0 THEN {Returns(V, EMPTY, n)}
        ELSE {Grown(V, a, n, Call("alloc", array(velem, n).size, n * elem_size))
                : a \in VAlloc(V.H, array(velem, n))}

\* RawVec::double
double(V) ==
    LET elem_size == velem.size IN
    IF elem_size = 0 THEN {Stops(V, "capacity overflow", None)}
    ELSE IF V.cap = 0
    THEN LET new_cap == IF elem_size > UsizeMax \div 8 THEN 1 ELSE 4 IN
         {Grown(V, a, new_cap, Call("alloc", array(velem, new_cap).size, new_cap * elem_size))
            : a \in VAlloc(V.H, array(velem, new_cap))}
    ELSE LET new_cap == MulUsize(2, V.cap)
             new_alloc_size == MulUsize(new_cap, elem_size)
         IN  IF ~alloc_guard(new_alloc_size)
             THEN {Stops(V, "capacity overflow", 2 * V.cap * elem_size)}
             ELSE {Grown(V, a, new_cap, Call("realloc", new_alloc_size, 2 * V.cap * elem_size))
                     : a \in VRealloc(V.H, V.ptr, array(velem, V.cap), new_alloc_size)}

\* the part reserve_exact and reserve share, from new_cap on; math is the
\* capacity asked for as a mathematical integer
ReserveTo(V, new_cap, math) ==
    LET elem_size == velem.size
        new_alloc_size == IF new_cap = None THEN None ELSE checked_mul(new_cap, elem_size)
    IN  IF new_alloc_size = None THEN {Stops(V, "capacity overflow", math * elem_size)}
        ELSE IF ~alloc_guard(new_alloc_size)
        THEN {Stops(V, "capacity overflow", math * elem_size)}
        ELSE IF V.cap = 0
        THEN {Grown(V, a, new_cap, Call("alloc", array(velem, new_cap).size, math * elem_size))
                : a \in VAlloc(V.H, array(velem, new_cap))}
        ELSE {Grown(V, a, new_cap, Call("realloc", new_alloc_size, math * elem_size))
                : a \in VRealloc(V.H, V.ptr, array(velem, V.cap), new_alloc_size)}

\* RawVec::reserve_exact that grows to twice the capacity asked for
reserve_exact_Twice(V, used_cap, needed_extra_cap) ==
    IF wrapping_sub(cap(V), used_cap) >= needed_extra_cap THEN {Returns(V, V.ptr, V.cap)}
    ELSE LET sum == checked_add(used_cap, needed_extra_cap)
             new_cap == IF sum = None THEN None ELSE checked_mul(sum, 2)
         IN  ReserveTo(V, new_cap, 2 * (used_cap + needed_extra_cap))

\* RawVec::reserve_exact
reserve_exact(V, used_cap, needed_extra_cap) ==
    IF wrapping_sub(cap(V), used_cap) >= needed_extra_cap THEN {Returns(V, V.ptr, V.cap)}
    ELSE ReserveTo(V, checked_add(used_cap, needed_extra_cap), used_cap + needed_extra_cap)

\* RawVec::reserve that forgets used_cap in its test
reserve_Short(V, used_cap, needed_extra_cap) ==
    IF cap(V) >= needed_extra_cap THEN {Returns(V, V.ptr, V.cap)}
    ELSE LET sum == checked_add(used_cap, needed_extra_cap)
             new_cap == IF sum = None THEN None ELSE checked_mul(sum, 2)
         IN  ReserveTo(V, new_cap, 2 * (used_cap + needed_extra_cap))

\* RawVec::reserve that keeps the buffer only when the room is exactly the one asked for
reserve_Exactly(V, used_cap, needed_extra_cap) ==
    IF wrapping_sub(cap(V), used_cap) = needed_extra_cap THEN {Returns(V, V.ptr, V.cap)}
    ELSE LET sum == checked_add(used_cap, needed_extra_cap)
             new_cap == IF sum = None THEN None ELSE checked_mul(sum, 2)
         IN  ReserveTo(V, new_cap, 2 * (used_cap + needed_extra_cap))

\* RawVec::reserve
reserve(V, used_cap, needed_extra_cap) ==
    IF wrapping_sub(cap(V), used_cap) >= needed_extra_cap THEN {Returns(V, V.ptr, V.cap)}
    ELSE LET sum == checked_add(used_cap, needed_extra_cap)
             new_cap == IF sum = None THEN None ELSE checked_mul(sum, 2)
         IN  ReserveTo(V, new_cap, 2 * (used_cap + needed_extra_cap))

\* RawVec::shrink_to_fit
shrink_to_fit(V, amount) ==
    LET elem_size == velem.size IN
    IF elem_size = 0 THEN {Returns(V, V.ptr, amount)}
    ELSE IF ~(V.cap >= amount) THEN {Stops(V, "assert", None)}
    ELSE IF amount = 0 THEN {Returns(V, empty.ptr, empty.cap)}
    ELSE IF V.cap # amount
    THEN {Grown(V, a, amount, Call("realloc", MulUsize(amount, elem_size), amount * elem_size))
            : a \in VRealloc(V.H, V.ptr, array(velem, V.cap), MulUsize(amount, elem_size))}
    ELSE {Returns(V, V.ptr, V.cap)}

\* impl Drop for RawVec
drop(V) ==
    IF velem.size # 0 /\ V.cap # 0 /\ V.cap # POST_DROP_USIZE
    THEN LET H == AbsDealloc(V.H, V.ptr, array(velem, V.cap)) IN
         [ptr |-> V.ptr, cap |-> V.cap, H |-> H,
          status |-> IF H.ub THEN "ub" ELSE "dropped",
          call |-> Call("dealloc", array(velem, V.cap).size, None)]
    ELSE [ptr |-> V.ptr, cap |-> V.cap, H |-> V.H, status |-> "dropped",
          call |-> Call("none", 0, None)]

\* RawVec::into_box: the slice is made of ptr and the cap field (not
\* cap()), the allocator moves into the box and the buffer is forgotten
into_box(V) ==
    [ptr |-> V.ptr, cap |-> V.cap, H |-> V.H, status |-> "boxed",
     call |-> Call("none", 0, None)]

\* impl Drop for Box<[T], A>, V.ptr and V.cap being the slice's address and
\* length: size_of_val is the length times the element size
box_drop(V) ==
    LET s == MulUsize(V.cap, velem.size)
        k == Kind(s, velem.align)
        H == AbsDealloc(V.H, V.ptr, k)
    IN  [ptr |-> V.ptr, cap |-> V.cap, H |-> H,
         status |-> IF H.ub THEN "ub" ELSE "box dropped",
         call |-> Call("dealloc", s, V.cap * velem.size)]

(***************************************************************************)
(* SpecVec: one RawVec<T, A> from its construction to its drop, for every  *)
(* platform width, element type and allocator of the sets below.           *)
(***************************************************************************)
ElemKinds == {Kind(0, 1), Kind(1, 1), Kind(2, 2)}

\* the capacities and amounts a caller passes: small ones and the ones
\* around the limits of the platform's words
Args == {0, 1, 2, IsizeMax + 1, UsizeMax}

VCur == [ptr |-> vptr, cap |-> vcap,
         H |-> [heap |-> aheap, log |-> <<>>, ub |-> FALSE, max |-> IsizeMax]]

\* the requirement used + extra of the last operation when that was a
\* reserve, called with used <= cap(), that returned
Reserved ==
    IF vlast.op = "reserve" /\ vstatus = "live" /\ vlast.within
    THEN vlast.used + vlast.extra
    ELSE None

\* the buffer becomes outcome o of operation op(used, extra); vlast keeps
\* the operation, its arguments, whether used <= cap() held when it was
\* called, the requirement of the reserve it came after, and its call on
\* the allocator
VSet(o, op, used, extra) ==
    /\ vptr' = o.ptr
    /\ vcap' = o.cap
    /\ vstatus' = o.status
    /\ aheap' = o.H.heap
    /\ alog' = o.H.log
    /\ vlast' = [op |-> op, used |-> used, extra |-> extra,
                 within |-> (used <= cap(VCur)),
                 after |-> IF op = "reserve" THEN Reserved ELSE None,
                 call |-> o.call]
    /\ UNCHANGED <<vbits, velem, valloc, aheld, alast, bvars, kvars>>

InitVec ==
    /\ vbits \in {NarrowBits, WideBits}
    /\ velem \in ElemKinds
    /\ valloc \in {"super", "heap"}
    /\ vptr = NULL
    /\ vcap = 0
    /\ vstatus = "none"
    /\ vlast = [op |-> "none", used |-> 0, extra |-> 0, within |-> TRUE, after |-> None,
                call |-> Call("none", 0, None)]
    /\ aheap = [a \in HeapAddrs |-> NoMem]
    /\ alog = <<>>
    /\ aheld = {}
    /\ alast = <<>>
    /\ IdleBump
    /\ IdleKind

\* RawVec::with_alloc(a)
VWithAlloc ==
    /\ vstatus = "none"
    /\ VSet(Returns(VCur, empty.ptr, empty.cap), "with_alloc", 0, 0)

\* RawVec::with_capacity_alloc(cap, a)
VWithCapacity ==
    /\ vstatus = "none"
    /\ \E n \in Args : \E o \in with_capacity_alloc(VCur, n) : VSet(o, "with_capacity", n, 0)

VDouble ==
    /\ vstatus = "live"
    /\ \E o \in double(VCur) : VSet(o, "double", 0, 0)

VReserveExact ==
    /\ vstatus = "live"
    /\ \E used \in Args : \E extra \in Args :
       \E o \in reserve_exact(VCur, used, extra) : VSet(o, "reserve_exact", used, extra)

VReserve ==
    /\ vstatus = "live"
    /\ \E used \in Args : \E extra \in Args :
       \E o \in reserve(VCur, used, extra) : VSet(o, "reserve", used, extra)

VShrinkToFit ==
    /\ vstatus = "live"
    /\ \E amount \in Args : \E o \in shrink_to_fit(VCur, amount) :
         VSet(o, "shrink_to_fit", amount, 0)

\* the buffer goes out of scope, or a panic of one of its operations
\* unwinds through its owner (oom() aborts instead: no drop)
VDrop ==
    /\ vstatus \in {"live", "capacity overflow", "assert"}
    /\ VSet(drop(VCur), "drop", 0, 0)

\* RawVec::into_box
VIntoBox ==
    /\ vstatus = "live"
    /\ VSet(into_box(VCur), "into_box", 0, 0)

\* the box goes out of scope
VBoxDrop ==
    /\ vstatus = "boxed"
    /\ VSet(box_drop(VCur), "box_drop", 0, 0)

NextVec ==
    \/ VWithAlloc
    \/ VWithCapacity
    \/ VDouble
    \/ VReserveExact
    \/ VReserve
    \/ VShrinkToFit
    \/ VDrop
    \/ VIntoBox
    \/ VBoxDrop

SpecVec == InitVec /\ [][NextVec]_vars

(***************************************************************************)
(* Claims about the growable buffer, checked under SpecVec.                *)
(***************************************************************************)
\* C4, as the specification states it: whenever reserve(used, extra)
\* returns, cap() >= used + extra as mathematical integers, whatever the
\* arguments and the state of the buffer.
C4_ReserveReachesAnyRequest ==
    (vlast.op = "reserve" /\ vstatus = "live")
      => cap(VCur) >= vlast.used + vlast.extra

\* C4, as the code has it: whenever reserve(used, extra), called with
\* used <= cap(), returns, cap() >= used + extra as mathematical integers;
\* after every call of any sequence of calls.
C4_ReserveReachesRequest ==
    (vlast.op = "reserve" /\ vstatus = "live" /\ vlast.within)
      => cap(VCur) >= vlast.used + vlast.extra

\* reserve has grown a buffer that held a block, to at least the request
C4_Witness ==
    /\ vlast.op = "reserve"
    /\ vstatus = "live"
    /\ vlast.within
    /\ vlast.call.op = "realloc"
    /\ vlast.used > 0
    /\ vlast.extra > 0
    /\ vcap >= vlast.used + vlast.extra

\* the capacity does not go down in a step of reserve
ReserveKeepsCap ==
    (vstatus = "live" /\ vlast'.op = "reserve") => cap([cap |-> vcap']) >= cap(VCur)

\* the step of reserve called no allocator operation and left the buffer alone
ReserveNoOp == alog' = <<>> /\ vptr' = vptr /\ vcap' = vcap /\ vstatus' = "live"

\* C5, as the specification states it: reserve never decreases the capacity,
\* and a reserve(used', extra') issued after a reserve(used, extra) with
\* used' + extra' <= used + extra and used' <= cap() calls no allocator
\* operation and leaves address and capacity unchanged.
C5_RepeatedReserveAnyFirst ==
    [][/\ ReserveKeepsCap
       /\ (/\ vlast.op = "reserve" /\ vstatus = "live"
           /\ vlast'.op = "reserve"
           /\ vlast'.used + vlast'.extra <= vlast.used + vlast.extra
           /\ vlast'.within)
          => ReserveNoOp]_vars

\* C5, as the code has it: the same, when the first reserve(used, extra) was
\* itself called with used <= cap().
C5_RepeatedReserveIsNoOp ==
    [][/\ ReserveKeepsCap
       /\ (/\ vlast'.op = "reserve"
           /\ vlast'.after # None
           /\ vlast'.used + vlast'.extra <= vlast'.after
           /\ vlast'.within)
          => ReserveNoOp]_vars

\* a reserve with a smaller requirement has come after a reserve that grew
\* the buffer
C5_Witness ==
    /\ vlast.op = "reserve"
    /\ vlast.after # None
    /\ vlast.after > 0
    /\ vlast.used + vlast.extra < vlast.after
    /\ vlast.used + vlast.extra > 0
    /\ vlast.within
    /\ vptr \in HeapAddrs
    /\ vstatus = "live"

\* C6: in every state of a buffer with non-zero element size, over every
\* allocator - the ones that keep the default realloc included - the kind
\* array(cap) that drop passes to dealloc and that double, reserve and
\* shrink_to_fit pass to realloc as the old kind is the kind the block at
\* ptr was allocated with; or the buffer is empty: ptr is the sentinel and
\* cap is 0.
C6_CapIsAllocatedKind ==
    (vstatus = "live" /\ velem.size # 0)
      => \/ vptr = EMPTY /\ vcap = 0
         \/ Owns(VCur.H, vptr, array(velem, vcap))

\* C7, as the specification states it: on every word size, the byte size a
\* buffer operation passes to alloc or realloc is computed without
\* wrap-around and is at most isize::MAX; a request above it fails with
\* capacity overflow before any call on the allocator.
C7_SizeGuardedOnEveryWord ==
    /\ vlast.call.op \in {"alloc", "realloc"}
         => vlast.call.size = vlast.call.exact /\ vlast.call.size <= IsizeMax
    /\ (vlast.call.exact # None /\ vlast.call.exact > IsizeMax)
         => vstatus = "capacity overflow" /\ vlast.call.op = "none" /\ alog = <<>>

\* C7, as the code has it: the same, on platforms whose words are narrower
\* than 64 bits.
C7_SizeGuardedBelow64 ==
    vbits < WideBits
      => /\ vlast.call.op \in {"alloc", "realloc"}
              => vlast.call.size = vlast.call.exact /\ vlast.call.size <= IsizeMax
         /\ (vlast.call.exact # None /\ vlast.call.exact > IsizeMax)
              => vstatus = "capacity overflow" /\ vlast.call.op = "none" /\ alog = <<>>

\* on a narrow platform a request between isize::MAX and usize::MAX bytes
\* has been stopped
C7_Witness ==
    /\ vbits < WideBits
    /\ vstatus = "capacity overflow"
    /\ vlast.call.exact > IsizeMax
    /\ vlast.call.exact <= UsizeMax
    /\ velem.size > 0

(***************************************************************************)
(* Further claims about the bump allocator, checked under SpecBump.        *)
(***************************************************************************)
\* C11: every non-null address alloc(kind) returns, from the arena or from
\* the direct allocator, is a multiple of kind.align, whatever address the
\* backing block and the direct blocks were given.
C11_ReturnedAddressAligned ==
    \A r \in regions : r.addr # NULL => r.addr % r.kind.align = 0

(***************************************************************************)
(* The layout calculus (alloc.rs: impl Kind).  The methods add and         *)
(* multiply usize values without a check: a build with overflow checks     *)
(* ("debug") panics where the mathematical result leaves the word, a build *)
(* without them ("release") wraps.  The operators below compute the        *)
(* wrapped results; the ..._overflows operators tell whether a step of the *)
(* method left the word.                                                   *)
(***************************************************************************)
Max(a, b) == IF a >= b THEN a ELSE b

\* the addition in Kind::pad_to leaves the word
pad_to_overflows(self, align) == self.size + align - 1 > UsizeMax

\* Kind::extend_packed
extend_packed(self, next) ==
    LET new_size == AddUsize(self.size, next.size)
    IN  [kind |-> [self EXCEPT !.size = new_size], offset |-> self.size]

extend_packed_overflows(self, next) == self.size + next.size > UsizeMax

\* Kind::align_to
align_to(self, align) ==
    IF align > self.align THEN [self EXCEPT !.align = align] ELSE self

\* Kind::extend
extend(self, next) ==
    LET new_align == Max(self.align, next.align)
        realigned == [self EXCEPT !.align = new_align]
        pad == pad_to(realigned, new_align)
        offset == AddUsize(self.size, pad)
        new_size == AddUsize(offset, next.size)
    IN  [kind |-> Kind(new_size, new_align), offset |-> offset]

extend_overflows(self, next) ==
    LET new_align == Max(self.align, next.align)
        realigned == [self EXCEPT !.align = new_align]
        pad == pad_to(realigned, new_align)
    IN  \/ pad_to_overflows(realigned, new_align)
        \/ self.size + pad > UsizeMax
        \/ self.size + pad + next.size > UsizeMax

array_overflows(self, n) ==
    \/ pad_to_overflows(self, self.align)
    \/ self.size + pad_to(self, self.align) > UsizeMax
    \/ (self.size + pad_to(self, self.align)) * n > UsizeMax

\* Kind::array_packed
array_packed(self, n) == Kind(MulUsize(self.size, n), self.align)

array_packed_overflows(self, n) == self.size * n > UsizeMax

(***************************************************************************)
(* SpecKind: one call of a Kind method on the layouts and counts below, on *)
(* both word widths and in both builds.                                    *)
(***************************************************************************)
\* sizes and counts: small ones and the ones at the end of the word
KindSizes == {0, 1, 2, 3, 5, IsizeMax, UsizeMax - 1, UsizeMax}
KindAligns == {1, 2, 4}
KindInputs == {Kind(s, a) : s \in KindSizes, a \in KindAligns}
KindCounts == {0, 1, 2, 3, IsizeMax + 1, UsizeMax}
Builds == {"debug", "release"}

\* the call op(self, next or n) in build b, with the method's result when it
\* returns; a debug build panics when a step overflowed
KCall(op, b, self, next, n, out, offset, overflowed) ==
    kcall' = [op |-> op, build |-> b, self |-> self, next |-> next, n |-> n,
              out |-> out, offset |-> offset,
              status |-> IF b = "debug" /\ overflowed THEN "panic" ELSE "ok"]

InitKind ==
    /\ vbits \in {NarrowBits, WideBits}
    /\ kcall = [op |-> "none", build |-> "debug", self |-> Kind(0, 1), next |-> Kind(0, 1),
                n |-> 0, out |-> Kind(0, 1), offset |-> 0, status |-> "ok"]
    /\ velem = <<>> /\ valloc = "idle" /\ vptr = 0 /\ vcap = 0
    /\ vstatus = "idle" /\ vlast = <<>>
    /\ IdleBump
    /\ IdleAlloc

KExtend ==
    /\ kcall.op = "none"
    /\ \E b \in Builds : \E self \in KindInputs : \E next \in KindInputs :
         LET r == extend(self, next) IN
         KCall("extend", b, self, next, 0, r.kind, r.offset, extend_overflows(self, next))
    /\ UNCHANGED <<bvars, avars, vvars>>

KExtendPacked ==
    /\ kcall.op = "none"
    /\ \E b \in Builds : \E self \in KindInputs : \E next \in KindInputs :
         LET r == extend_packed(self, next) IN
         KCall("extend_packed", b, self, next, 0, r.kind, r.offset,
               extend_packed_overflows(self, next))
    /\ UNCHANGED <<bvars, avars, vvars>>

KAlignTo ==
    /\ kcall.op = "none"
    /\ \E b \in Builds : \E self \in KindInputs : \E align \in KindAligns :
         KCall("align_to", b, self, Kind(0, align), 0, align_to(self, align), 0, FALSE)
    /\ UNCHANGED <<bvars, avars, vvars>>

KArray ==
    /\ kcall.op = "none"
    /\ \E b \in Builds : \E self \in KindInputs : \E n \in KindCounts :
         KCall("array", b, self, Kind(0, 1), n, array(self, n), 0, array_overflows(self, n))
    /\ UNCHANGED <<bvars, avars, vvars>>

KArrayPacked ==
    /\ kcall.op = "none"
    /\ \E b \in Builds : \E self \in KindInputs : \E n \in KindCounts :
         KCall("array_packed", b, self, Kind(0, 1), n, array_packed(self, n), 0,
               array_packed_overflows(self, n))
    /\ UNCHANGED <<bvars, avars, vvars>>

NextKind == KExtend \/ KExtendPacked \/ KAlignTo \/ KArray \/ KArrayPacked

SpecKind == InitKind /\ [][NextKind]_vars

(***************************************************************************)
(* Claims about the layout calculus, checked under SpecKind.               *)
(***************************************************************************)
\* C12: for all layouts A and B with power-of-two alignments, extend(A, B)
\* returns (K, offset) with offset >= A.size, K.align = max(A.align, B.align)
\* and K.size = offset + B.size; extend_packed(A, B) returns (K, offset)
\* with offset = A.size, K.size = A.size + B.size and K.align = A.align.
C12_ExtendLaysOutBothParts ==
    /\ (kcall.op = "extend" /\ kcall.status = "ok")
         => /\ kcall.offset >= kcall.self.size
            /\ kcall.out.align = Max(kcall.self.align, kcall.next.align)
            /\ kcall.out.size = kcall.offset + kcall.next.size
    /\ (kcall.op = "extend_packed" /\ kcall.status = "ok")
         => /\ kcall.offset = kcall.self.size
            /\ kcall.out.size = kcall.self.size + kcall.next.size
            /\ kcall.out.align = kcall.self.align

\* the least multiple of align that is at least size, as a mathematical integer
RoundUp(size, align) == ((size + align - 1) \div align) * align

\* C13: for all layouts A with power-of-two alignment and all counts n of
\* the machine word, A.array(n).size = n * roundup(A.size, A.align) and
\* A.array_packed(n).size = n * A.size as mathematical integers, without
\* wrap-around, and both results keep A.align.
C13_ArraySizeIsProduct ==
    /\ (kcall.op = "array" /\ kcall.status = "ok")
         => /\ kcall.out.size = kcall.n * RoundUp(kcall.self.size, kcall.self.align)
            /\ kcall.out.align = kcall.self.align
    /\ (kcall.op = "array_packed" /\ kcall.status = "ok")
         => /\ kcall.out.size = kcall.n * kcall.self.size
            /\ kcall.out.align = kcall.self.align

\* the operations of the buffer itself, its teardown included; into_box
\* and the teardown of the box are not among them
BufferOps ==
    {"with_alloc", "with_capacity", "double", "reserve", "reserve_exact",
     "shrink_to_fit", "drop"}

\* C14: for a zero-size element type no operation of the buffer
\* (with_alloc, with_capacity, double, reserve, reserve_exact,
\* shrink_to_fit, drop) calls alloc, realloc or dealloc on the allocator,
\* and cap() is the largest count of the word after every one of them;
\* double always fails with capacity overflow; reserve and reserve_exact
\* either return with address and cap field unchanged or fail with
\* capacity overflow.
C14_ZeroSizeNeverAllocates ==
    [][(velem.size = 0 /\ vlast'.op \in BufferOps) =>
         /\ vlast'.call.op = "none"
         /\ alog' = <<>>
         /\ aheap' = aheap
         /\ cap(VCur)' = UsizeMax
         /\ vlast'.op = "double" => vstatus' = "capacity overflow"
         /\ vlast'.op \in {"reserve", "reserve_exact"} =>
              \/ vstatus' = "capacity overflow"
              \/ vstatus' = "live" /\ vptr' = vptr /\ vcap' = vcap]_vars

\* a buffer of zero-size elements whose cap field was set to 2 and that
\* then refused a reserve_exact past the largest count
C14_Witness ==
    /\ velem.size = 0
    /\ vcap = 2
    /\ vlast.op = "reserve_exact"
    /\ vstatus = "capacity overflow"

\* the step is a reserve_exact that returned
ReserveExactReturned == vlast'.op = "reserve_exact" /\ vstatus' = "live"

\* the step changed neither address nor cap field and made no call on the allocator
BufferUntouched ==
    /\ vptr' = vptr
    /\ vcap' = vcap
    /\ aheap' = aheap
    /\ vlast'.call.op = "none"

\* C15, as the specification states it: when reserve_exact(used, extra)
\* returns, the capacity is exactly used + extra if cap() was below
\* used + extra before the call, and otherwise address and capacity are
\* unchanged and no allocator operation was invoked, whatever used is.
C15_ReserveExactAnyUsed ==
    [][ReserveExactReturned =>
         IF cap(VCur) < vlast'.used + vlast'.extra
         THEN cap(VCur)' = vlast'.used + vlast'.extra
         ELSE BufferUntouched]_vars

\* C15, amended: when reserve_exact(used, extra) is called with
\* used <= cap() and returns, the capacity is exactly used + extra if
\* cap() was below used + extra, and otherwise the buffer is untouched;
\* called with used > cap() it returns with the buffer untouched.
C15_ReserveExactIsExact ==
    [][ReserveExactReturned =>
         IF vlast'.within /\ cap(VCur) < vlast'.used + vlast'.extra
         THEN cap(VCur)' = vlast'.used + vlast'.extra
         ELSE BufferUntouched]_vars

\* a buffer holding a block that reserve_exact grew to exactly used + extra
C15_Witness ==
    /\ vlast.op = "reserve_exact"
    /\ vstatus = "live"
    /\ vlast.within
    /\ vlast.used > 0
    /\ vlast.call.op = "realloc"
    /\ vcap = vlast.used + vlast.extra

\* C16: in every state of the buffer at most one block of its allocator is
\* live and that block is the one at the buffer's address; once the buffer
\* (or the box it was turned into) is torn down no block is left live.  In
\* particular shrink_to_fit(0) leaves no block live but unreferenced.
C16_OnlyLiveBlockIsAtPtr ==
    \A a \in HeapAddrs :
       (vstatus # "ub" /\ aheap[a].live)
         => a = vptr /\ vstatus \notin {"dropped", "box dropped"}

\* C17: into_box leaves the block alone (no call on the allocator, heap
\* unchanged); the teardown of the box of a buffer that held a block
\* deallocates that block, with the layout of size cap * element size and
\* the element's alignment, which is the layout array(cap) the block was
\* allocated with.
C17_BoxFreesWithAllocatedLayout ==
    [][/\ vlast'.op = "into_box"
            => aheap' = aheap /\ vlast'.call.op = "none" /\ vptr' = vptr /\ vcap' = vcap
       /\ (vlast'.op = "box_drop" /\ vptr \in HeapAddrs)
            => /\ vlast'.call = Call("dealloc", vcap * velem.size, vcap * velem.size)
               /\ array(velem, vcap) = Kind(vcap * velem.size, velem.align)
               /\ Owns(VCur.H, vptr, array(velem, vcap))
               /\ ~aheap'[vptr].live]_vars


\* C18: the backing block of the arena is live as long as a handle sharing
\* the arena state is alive, and is released once the last handle has been
\* dropped.
C18_BackingBlockFollowsHandles ==
    IF handles > 0 THEN backing = "live" ELSE backing = "released"

(***************************************************************************)
(* SpecTyped: the typed conveniences alloc_one, alloc_array and            *)
(* dealloc_one over the two allocators of the model: the bump allocator,   *)
(* which never returns null, and the abstract allocator, which may.  The   *)
(* caller of the bump allocator is the one of SpecGiant.                   *)
(***************************************************************************)
InitTyped == InitBump \/ InitAlloc

NextTyped == NextGiant \/ NextAlloc

SpecTyped == InitTyped /\ [][NextTyped]_vars

\* the step gives back, with its layout, the region that the call just
\* before it allocated for a type
RoundTrip ==
    /\ blast.op = "alloc"
    /\ IsTypeKind(blast.kind)
    /\ blast'.op = "dealloc"
    /\ blast'.ptr = blast.res.ptr
    /\ blast'.kind = blast.kind

\* C19: on the bump allocator, alloc_one::<T>() called in a state where an
\* entry for T ends at or before the limit returns Ok, and a dealloc_one of
\* its result right afterwards leaves the cursor at the value it had before
\* the alloc_one; on every allocator alloc_one and alloc_array return Err
\* exactly when alloc returned null.
C19_TypedRoundTrip ==
    [][/\ bstatus # "idle"
            => /\ (blast'.op = "alloc" /\ IsTypeKind(blast'.kind) /\ blast'.fits)
                    => blast'.res.ok
               /\ blast'.op = "alloc" => (blast'.res.ok <=> blast'.ret # NULL)
               /\ (RoundTrip /\ blast.fits) => cursor' = blast.before
       /\ (bstatus = "idle" /\ alast'.op = "alloc")
            => (alast'.res.ok <=> alast'.ret # NULL)]_vars

\* what is not an entry
NoEntry == [addr |-> 0 - 1, size |-> 0, live |-> FALSE]

\* the entries found below address c, reading the size words from c down
\* to the start of the block: an entry of size word v is the |v| bytes that
\* end with the word.  NoEntry is among them when a word is not a size
\* word, is 0 or reaches below the block.
RECURSIVE EntriesBelow(_)
EntriesBelow(c) ==
    IF c = block THEN {}
    ELSE LET rd == ReadI32(Cur, c - 4)
             size == IF rd.v < 0 THEN 0 - rd.v ELSE rd.v
         IN  IF c - 4 < block \/ ~rd.ok \/ size = 0 \/ c - size < block
             THEN {NoEntry}
             ELSE {[addr |-> c - size, size |-> size, live |-> rd.v > 0]}
                    \cup EntriesBelow(c - size)

\* the arena entries of the regions the callers hold
LiveEntries ==
    {[addr |-> r.addr, size |-> EntrySize(r.kind), live |-> TRUE]
       : r \in {q \in regions : q.via = "bump"}}

\* C20: in every reachable state of the arena, whatever handles the calls
\* went through, [block, cursor) is tiled exactly by entries: reading the
\* size words down from the cursor ends exactly at the block's start, the
\* absolute value of each word being the size of its entry; and the
\* entries with a positive word are exactly the entries of the regions
\* allocated and not yet deallocated.
C20_ArenaTiledByEntries ==
    bstatus # "idle"
      => /\ NoEntry \notin EntriesBelow(cursor)
         /\ {e \in EntriesBelow(cursor) : e.live} = LiveEntries

(***************************************************************************)
(* Claims about where alloc serves a request from, checked under SpecBump. *)
(***************************************************************************)
\* C21: after alloc(kind) with kind.align <= 16, called where the entry
\* ends at or before the limit (the entry that ends exactly at the limit
\* included), the address is the cursor of before the call and the cursor
\* has advanced by exactly the entry's size; called where the entry ends
\* past the limit, the address comes from the direct allocator.
C21_ServedFromArenaWhenFits ==
    (bstatus # "idle" /\ blast.op = "alloc" /\ blast.kind.align <= MIN_ALIGN)
      => IF blast.fits
         THEN blast.ret = blast.before /\ cursor = blast.before + EntrySize(blast.kind)
         ELSE blast.ret \in DirectSlots \cup {EMPTY} /\ cursor = blast.before

\* C22: a step that is an alloc whose entry, at its size as a mathematical
\* integer, ends past the limit - for a layout of any size, the ones larger
\* than the arena and the ones whose entry size is no i32 included - leaves
\* the cursor and every byte of the arena, its size words with them, as
\* they were, and returns an address of the direct allocator.
C22_NoFitLeavesArenaAlone ==
    [][(bstatus = "run" /\ handed' = handed + 1 /\ blast'.op = "alloc" /\ ~blast'.fits)
         => /\ cursor' = cursor
            /\ mem' = mem
            /\ wild' = wild
            /\ blast'.ret \in DirectSlots \cup {EMPTY}]_vars

\* the regions held that alloc served from the arena
ArenaRegions == {r \in regions : r.via = "bump"}

\* C23: in every reachable state the cursor is at the block's start or the
\* entry that ends at the cursor is live: it is the entry of a region held
\* and its size word is positive.  Hence, once every region served from
\* the arena has been given back, in whatever order, the cursor is at the
\* block's start.
C23_NoFreeEntryBelowCursor ==
    bstatus # "idle"
      => \/ cursor = block
         \/ /\ \E r \in ArenaRegions : EntryEnd(r) = cursor
            /\ ReadI32(Cur, cursor - HDR).ok
            /\ ReadI32(Cur, cursor - HDR).v > 0

\* C24: in every reachable state the usable regions
\* [addr, addr + kind.size) of the regions held that were served from the
\* arena, through whatever handle, are pairwise disjoint, lie inside
\* [block, limit) and below the cursor, and overlap the size word of no
\* entry.
C24_ArenaRegionsDisjoint ==
    bstatus # "idle"
      => \A r \in ArenaRegions :
           /\ block <= r.addr
           /\ r.addr + r.kind.size <= limit
           /\ r.addr + r.kind.size <= cursor
           /\ \A q \in ArenaRegions \ {r} :
                Disjoint(r.addr, r.addr + r.kind.size, q.addr, q.addr + q.kind.size)
           /\ \A e \in EntriesBelow(cursor) \ {NoEntry} :
                Disjoint(r.addr, r.addr + r.kind.size,
                         e.addr + e.size - HDR, e.addr + e.size)

\* the regions that the step's alloc served from the arena
NewArenaRegions ==
    IF bstatus = "run" /\ blast'.op = "alloc" /\ handed' = handed + 1
    THEN {n \in regions' \ regions : n.via = "bump"}
    ELSE {}

\* the four bytes from address a on, after the step, hold the size word v
WordAfterStep(a, v) ==
    \A k \in 0..(HDR - 1) :
       IF a + k \in DOMAIN mem THEN mem'[a + k] = HdrByte(v, k) ELSE a + k \in wild'

C26_ExtendPadsOnlyForNext ==
    (kcall.op = "extend" /\ kcall.status = "ok")
      => kcall.offset = RoundUp(kcall.self.size, kcall.next.align)

====
